---- MODULE Spec2Model ----
(***************************************************************************)
(* A model of heatmap_main.py: the renderer create_heatmap and the        *)
(* module-level call that renders the 10x8 ratings matrix.                *)
(*                                                                         *)
(* Units.  Matrix values are integers in tenths (9.8 is 98, 10 is 100),   *)
(* so that the division by the maximum and the ".1f" formatting are       *)
(* computed exactly.  Coordinates and shape sizes are integers in         *)
(* hundredths of a cell (0.5 is 50, 0.8 is 80, 0.05 is 5).                *)
(*                                                                         *)
(* Optional values.  None is the empty tuple <<>> and a present value v   *)
(* is the one-element tuple <<v>>; dict.get(k) returns such a tuple.      *)
(***************************************************************************)
EXTENDS Integers, Sequences, FiniteSets, TLC

VARIABLES
    pc,        \* "module": the script's call is next; "idle": between calls;
               \* "returned": a call has just ended (normally or by an exception)
    defaults,  \* the default objects shared by all calls (create_heatmap.__defaults__)
    args,      \* the arguments the latest call was bound to, and the build it ran under
    fig        \* what the latest call did to the figure, and how it ended

vars == <<pc, defaults, args, fig>>

(***************************************************************************)
(* Bounds of the model.                                                    *)
(***************************************************************************)
\* a matrix has at most MaxRows rows, a row at most MaxCols entries, and the
\* rows together at most MaxCells entries
MaxRows == 2
MaxCols == 2
MaxCells == 4

(***************************************************************************)
(* Inputs.                                                                 *)
(***************************************************************************)
SeqsUpTo(S, n) == UNION {[1..k -> S] : k \in 0..n}

RECURSIVE CellCount(_)
CellCount(data) == IF data = <<>> THEN 0 ELSE Len(Head(data)) + CellCount(Tail(data))

\* the nested lists over a set of values: empty, ragged and rectangular ones
MatricesOver(V) ==
    {data \in SeqsUpTo(SeqsUpTo(V, MaxCols), MaxRows) : CellCount(data) <= MaxCells}

\* -1.0, 0, 5 and 10, in tenths
Values == {-10, 0, 50, 100}

ColorMaps == {"Greens", "Blues"}

\* value_figure_type: the two documented values and an unrecognized one
FigureTypes == {"rectangle", "ellipse", "circle"}

\* a caller's dict with every key the two shapes read
CustomFigureParams ==
    [padding |-> 10, rounding_size |-> 30, length |-> 60, width |-> 60, height |-> 40]

\* value_figure_params as passed: omitted (<<>>) or a dict of the caller
FigureParamChoices == {<<>>, <<CustomFigureParams>>}

\* x_labels / y_labels as passed: None, an empty list, a list of two labels
LabelChoices == {<<>>, << <<>> >>, << <<"a", "b">> >>}

\* heatmap_kwargs as passed: omitted (<<>>) or a dict of the caller
KwargsChoices == {<<>>, <<[square |-> TRUE]>>}

\* The installed libraries.  "legacy": a numpy before 1.24 (a ragged list becomes
\* a one-dimensional object array, which seaborn then rejects) and a matplotlib
\* that takes any number of tick labels; "current": numpy raises on a ragged list
\* and matplotlib raises when the number of labels differs from that of the ticks.
LibraryBuilds == {"legacy", "current"}

\* The calls of a user of the module.  Every matrix with every colormap, shape
\* type and shape dict, the labels and the grid options left to their defaults
\* (the generated labels fit under both builds); and every matrix of zeros and
\* fives with every choice of labels and grid options under both builds.
CallInputs ==
    [data : MatricesOver(Values), cmap : ColorMaps, type : FigureTypes,
     params : FigureParamChoices, xl : {<<>>}, yl : {<<>>}, kw : {<<>>},
     lib : {"current"}]
    \cup
    [data : MatricesOver({0, 50}), cmap : ColorMaps, type : {"rectangle"},
     params : {<<>>}, xl : LabelChoices, yl : LabelChoices, kw : KwargsChoices,
     lib : LibraryBuilds]

(***************************************************************************)
(* The program's constants.                                                *)
(***************************************************************************)
\* line 13: the default value of value_figure_params
DefaultFigureParams ==
    [padding |-> 5, rounding_size |-> 20, length |-> 80, height |-> 80]

\* 0.5: the offset of a cell's centre from its corner (lines 118 and 133)
CellCentre == 50
\* 0.1: the offset of the rectangle's corner from the cell's corner (line 126)
RectOffset == 10

(***************************************************************************)
(* Helpers of the language and the libraries.                              *)
(***************************************************************************)
\* dict.get(key): None when the key is absent
DictGet(d, key) == IF key \in DOMAIN d THEN <<d[key]>> ELSE <<>>

\* Python's truth value of None or a list
Truthy(opt) == opt # <<>> /\ opt[1] # <<>>

\* the decimal digits of a natural number, as a sequence of characters
RECURSIVE Digits(_)
Digits(n) ==
    IF n < 10 THEN <<ToString(n)>>
    ELSE Digits(n \div 10) \o <<ToString(n % 10)>>

\* Format1f with no decimal place, as f"{v:.0f}" would give for whole numbers
Format0f(v) ==
    LET a == IF v < 0 THEN -v ELSE v
    IN  (IF v < 0 THEN <<"-">> ELSE <<>>) \o Digits(a \div 10)

\* f"{v:.1f}" for a value v in tenths, as a sequence of characters:
\* sign, integer part, point, one digit
Format1f(v) ==
    LET a == IF v < 0 THEN -v ELSE v
    IN  (IF v < 0 THEN <<"-">> ELSE <<>>)
            \o Digits(a \div 10) \o <<".">> \o Digits(a % 10)

\* GeneratedLabels numbered from zero
GeneratedLabelsFromZero(prefix, n) == [i \in 1..n |-> prefix \o ToString(i - 1)]

\* [f"S{i + 1}" for i in range(n)], and the same with "E"
GeneratedLabels(prefix, n) == [i \in 1..n |-> prefix \o ToString((i - 1) + 1)]

\* numpy's view of the nested list: rectangular when all rows have one length
Rectangular(data) == \A r \in 1..Len(data) : Len(data[r]) = Len(data[1])

\* NpMax taken over the first row only
NpMaxFirstRow(data) ==
    LET flat == {data[1][c] : c \in 1..Len(data[1])}
    IN  CHOOSE m \in flat : \A x \in flat : x <= m

\* np.max(data): the largest entry of the whole matrix
NpMax(data) ==
    LET flat == UNION {{data[r][c] : c \in 1..Len(data[r])} : r \in 1..Len(data)}
    IN  CHOOSE m \in flat : \A x \in flat : x <= m

\* a colour given by name
NamedColor(name) == [kind |-> "named", name |-> name, index |-> 0]

\* plt.get_cmap(name)(num / den): the entry of the colormap's 256-entry table.
\* A scalar below 0 (and -inf) takes the "under" colour, which is entry 0, and a
\* scalar of 1 or above (and +inf) takes entry 255; numpy divides by zero with
\* a warning, giving -inf or +inf.
Colormap(name, num, den) ==
    LET raw == IF den > 0 THEN (256 * num) \div den
               ELSE IF den < 0 THEN (256 * (-num)) \div (-den)
               ELSE IF num < 0 THEN -1 ELSE 256
        idx == IF raw < 0 THEN 0 ELSE IF raw > 255 THEN 255 ELSE raw
    IN  [kind |-> "rgba", name |-> name, index |-> idx]

(***************************************************************************)
(* The figure.                                                             *)
(***************************************************************************)
\* The state of one call before anything is drawn: the figure, how the call
\* ended (error = "" while no exception is raised, line: where it was raised) and
\* the two dict objects the call was given, which it could write to.
NewRun(params, kwargs) ==
    [grid |-> <<>>, xticklabels |-> <<>>, yticklabels |-> <<>>,
     patches |-> <<>>, texts |-> <<>>, cmap_calls |-> <<>>,
     shown |-> FALSE, error |-> "", line |-> 0,
     value_figure_params |-> params, heatmap_kwargs |-> kwargs]

\* an exception raised at a line of create_heatmap: the call ends there
Raise(f, exception, at) == [f EXCEPT !.error = exception, !.line = at]

\* DictAfterGet for setdefault, which stores None under an absent key
DictAfterSetdefault(d, key) ==
    [k \in DOMAIN d \cup {key} |-> IF k \in DOMAIN d THEN d[k] ELSE <<>>]

\* the dict after d.get(key): get only reads
DictAfterGet(d, key) == d

\* the dict after f(**d): the callee receives a new dict
DictAfterUnpack(d) == d

(***************************************************************************)
(* create_heatmap, lines 85-137.  a: the bound arguments, with the build   *)
(* the call runs under (a.lib).                                            *)
(***************************************************************************)
\* BaseGrid with libraries that take any nested list
BaseGridUnchecked(a, f) ==
    IF Len(a.data) = 0
    THEN Raise(f, "IndexError", 86)
    ELSE [f EXCEPT !.grid = <<Len(a.data), Len(a.data[1])>>,
                   !.heatmap_kwargs = DictAfterUnpack(@)]

\* lines 85-98: the sizes, the mask and the colourless base grid
BaseGrid(a, f) ==
    IF Len(a.data) = 0
    THEN Raise(f, "IndexError", 86)                   \* data[0] of an empty list
    ELSE IF ~Rectangular(a.data) /\ a.lib = "current"
    THEN Raise(f, "ValueError", 89)                   \* np.ones_like: inhomogeneous shape
    ELSE IF ~Rectangular(a.data)
    THEN Raise(f, "ValueError", 98)                   \* sns.heatmap: mask and data differ in shape
    ELSE IF Len(a.data[1]) = 0
    THEN Raise(f, "ValueError", 98)                   \* sns.heatmap: minimum of a zero-size array
    ELSE [f EXCEPT !.grid = <<Len(a.data), Len(a.data[1])>>,
                   !.heatmap_kwargs = DictAfterUnpack(@)]

\* the labels an axis is given: the caller's list when it is truthy
ChosenLabels(given, prefix, n) ==
    IF Truthy(given) THEN given[1] ELSE GeneratedLabels(prefix, n)

\* lines 101-105: the tick labels; the grid has one x tick per column and one
\* y tick per row
AxisLabels(a, f) ==
    LET xlen == Len(a.data)
        ylen == Len(a.data[1])
        xl == ChosenLabels(a.x_labels, "S", ylen)
        yl == ChosenLabels(a.y_labels, "E", xlen)
    IN  IF a.lib = "current" /\ Len(xl) # ylen
        THEN Raise(f, "ValueError", 101)
        ELSE IF a.lib = "current" /\ Len(yl) # xlen
        THEN Raise([f EXCEPT !.xticklabels = xl], "ValueError", 104)
        ELSE [f EXCEPT !.xticklabels = xl, !.yticklabels = yl]

\* lines 117-123: the Ellipse of cell (i, j), given its centre, or <<>> when a
\* size it needs is None
EllipseShape(a, i, j, color_value) ==
    LET p == a.value_figure_params
    IN  IF DictGet(p, "width") = <<>> \/ DictGet(p, "height") = <<>>
        THEN <<>>
        ELSE <<[kind |-> "Ellipse",
                xy |-> <<100 * j + CellCentre, 100 * i + CellCentre>>,
                width |-> DictGet(p, "width")[1],
                height |-> DictGet(p, "height")[1],
                boxstyle |-> <<>>,
                edgecolor |-> "black", facecolor |-> color_value]>>

\* lines 125-129: the FancyBboxPatch of cell (i, j), given its lower left corner,
\* its width and its height (the pad of the box style grows it on every side),
\* or <<>> when a size it needs is None
RectangleShape(a, i, j, color_value) ==
    LET p == a.value_figure_params
    IN  IF \E key \in {"length", "height", "padding", "rounding_size"} :
                DictGet(p, key) = <<>>
        THEN <<>>
        ELSE <<[kind |-> "FancyBboxPatch",
                xy |-> <<100 * j + RectOffset, 100 * i + RectOffset>>,
                width |-> DictGet(p, "length")[1],
                height |-> DictGet(p, "height")[1],
                boxstyle |-> <<"round", DictGet(p, "padding")[1],
                               DictGet(p, "rounding_size")[1]>>,
                edgecolor |-> "black", facecolor |-> color_value]>>

\* Shape with an unrecognized type rejected instead of drawn as a rectangle
ShapeStrict(a, i, j, color_value) ==
    IF a.value_figure_type = "ellipse" THEN EllipseShape(a, i, j, color_value)
    ELSE IF a.value_figure_type = "rectangle" THEN RectangleShape(a, i, j, color_value)
    ELSE <<>>

\* lines 116-129: the shape of cell (i, j)
Shape(a, i, j, color_value) ==
    IF a.value_figure_type = "ellipse" THEN EllipseShape(a, i, j, color_value)
    ELSE RectangleShape(a, i, j, color_value)

\* The exception of a shape that cannot be made.  A box style of "pad=None" is
\* rejected when the FancyBboxPatch is constructed (line 125); a width, length or
\* height of None fails in the arithmetic of add_patch (line 130).
ShapeFailure(a) ==
    IF a.value_figure_type # "ellipse"
       /\ \E key \in {"padding", "rounding_size"} :
              DictGet(a.value_figure_params, key) = <<>>
    THEN <<"ValueError", 125>>
    ELSE <<"TypeError", 130>>

\* the keys the shape of the given type reads with get
KeysRead(type) ==
    IF type = "ellipse" THEN <<"width", "height">>
    ELSE <<"length", "height", "padding", "rounding_size">>

\* the dict after the gets of one cell
RECURSIVE DictAfterGets(_, _)
DictAfterGets(d, keys) ==
    IF keys = <<>> THEN d
    ELSE DictAfterGets(DictAfterGet(d, Head(keys)), Tail(keys))

\* CellColor without the case of a zero value
CellColorNoZeroCase(a, v) == Colormap(a.value_color_map, v, NpMax(a.data))

\* lines 110-114: the fill colour of a cell of value v
CellColor(a, v) ==
    IF v # 0 THEN Colormap(a.value_color_map, v, NpMax(a.data))
    ELSE NamedColor("white")

\* lines 109-134: one cell
DrawCell(a, f, i, j) ==
    IF j >= Len(a.data[i + 1])
    THEN Raise(f, "IndexError", 110)                  \* data[i][j] past the row's end
    ELSE
    LET v == a.data[i + 1][j + 1]
        mx == NpMax(a.data)
        color_value == CellColor(a, v)
        g == [f EXCEPT
                !.cmap_calls = IF v # 0
                               THEN Append(@, [name |-> a.value_color_map,
                                               num |-> v, den |-> mx])
                               ELSE @,
                !.value_figure_params =
                    DictAfterGets(@, KeysRead(a.value_figure_type))]
        shape == Shape(a, i, j, color_value)
    IN  IF shape = <<>>
        THEN Raise(g, ShapeFailure(a)[1], ShapeFailure(a)[2])
        ELSE [g EXCEPT
                !.patches = Append(@, shape[1]),
                !.texts = IF v # 0
                          THEN Append(@, [x |-> 100 * j + CellCentre,
                                          y |-> 100 * i + CellCentre,
                                          s |-> Format1f(v)])
                          ELSE @]

\* lines 108-134: the cells in row-major order, from the k-th on
RECURSIVE DrawCells(_, _, _)
DrawCells(a, f, k) ==
    LET xlen == Len(a.data)
        ylen == Len(a.data[1])
    IN  IF k >= xlen * ylen THEN f
        ELSE LET g == DrawCell(a, f, k \div ylen, k % ylen)
             IN  IF g.error # "" THEN g ELSE DrawCells(a, g, k + 1)

\* line 137
Show(f) == [f EXCEPT !.shown = TRUE]

\* lines 85-137: an exception ends the call where it is raised
Body(a) ==
    LET f1 == BaseGrid(a, NewRun(a.value_figure_params, a.heatmap_kwargs))
        f2 == AxisLabels(a, f1)
        f3 == DrawCells(a, f2, 0)
    IN  IF f1.error # "" THEN f1
        ELSE IF f2.error # "" THEN f2
        ELSE IF f3.error # "" THEN f3
        ELSE Show(f3)

(***************************************************************************)
(* The module-level script, lines 140-165.                                 *)
(***************************************************************************)
\* lines 140-151, in tenths
ScriptData ==
    << <<100, 100, 98, 95, 96, 86, 93, 92>>,
       <<100, 89, 89, 100, 96, 87, 96, 87>>,
       <<86, 100, 92, 96, 100, 87, 90, 73>>,
       <<100, 97, 100, 96, 96, 100, 97, 58>>,
       <<95, 96, 98, 98, 96, 98, 95, 49>>,
       <<100, 100, 83, 100, 54, 88, 84, 48>>,
       <<100, 100, 77, 100, 83, 98, 87, 0>>,
       <<100, 92, 97, 96, 100, 85, 0, 0>>,
       <<100, 92, 100, 98, 92, 99, 0, 0>>,
       <<100, 92, 100, 98, 92, 99, 0, 0>> >>

\* line 159
ScriptFigureParams ==
    [padding |-> 5, rounding_size |-> 20, length |-> 80, height |-> 80]

(***************************************************************************)
(* The state machine.                                                      *)
(***************************************************************************)
\* a parameter's value: the caller's object, or the shared default object
Bind(given, default) == IF given = <<>> THEN default ELSE given[1]

\* the default object after a call: the call's writes to it, if it was bound
AfterCall(given, default, after) == IF given = <<>> THEN after ELSE default

\* lines 8-16 and 85-137: one call of create_heatmap, to its return or exception
Call(data, cmap, type, params, xl, yl, kw, lib) ==
    LET a == [data |-> data, value_color_map |-> cmap, value_figure_type |-> type,
              value_figure_params |-> Bind(params, defaults.value_figure_params),
              heatmap_kwargs |-> Bind(kw, defaults.heatmap_kwargs),
              x_labels |-> xl, y_labels |-> yl,
              params_given |-> params, kwargs_given |-> kw, lib |-> lib]
        r == Body(a)
    IN  /\ pc' = "returned"
        /\ args' = a
        /\ fig' = r
        /\ defaults' =
             [value_figure_params |->
                  AfterCall(params, defaults.value_figure_params, r.value_figure_params),
              heatmap_kwargs |->
                  AfterCall(kw, defaults.heatmap_kwargs, r.heatmap_kwargs)]

\* the function object as defined by lines 8-16; the script has not yet run
Init ==
    /\ pc = "module"
    /\ defaults = [value_figure_params |-> DefaultFigureParams, heatmap_kwargs |-> <<>>]
    /\ args = <<>>
    /\ fig = <<>>

\* lines 154-165: the script's call
Main ==
    /\ pc = "module"
    /\ \E lib \in LibraryBuilds :
          Call(ScriptData, "Blues", "rectangle", <<ScriptFigureParams>>,
               <<GeneratedLabels("S", Len(ScriptData[1]))>>,
               <<GeneratedLabels("E", Len(ScriptData))>>,
               <<[square |-> TRUE]>>, lib)

\* a call by a user of the module
CreateHeatmap ==
    /\ pc = "idle"
    /\ \E c \in CallInputs :
          Call(c.data, c.cmap, c.type, c.params, c.xl, c.yl, c.kw, c.lib)

\* the call is over: its locals and its figure are gone
Return ==
    /\ pc = "returned"
    /\ pc' = "idle"
    /\ args' = <<>>
    /\ fig' = <<>>
    /\ UNCHANGED defaults

Next == Main \/ CreateHeatmap \/ Return

Spec == Init /\ [][Next]_vars

(***************************************************************************)
(* Vocabulary of the properties.                                           *)
(***************************************************************************)
Returned == pc = "returned"

\* the call reached plt.show()
Completed == Returned /\ fig.shown

Rows == Len(args.data)
Cols == Len(args.data[1])

\* the cell of the k-th shape: the shapes are emitted in row-major order
RowOf(k) == (k - 1) \div Cols
ColOf(k) == (k - 1) % Cols
ValueOf(k) == args.data[RowOf(k) + 1][ColOf(k) + 1]

\* the labels placed at the centre (j + 0.5, i + 0.5) of cell (i, j)
LabelsAt(i, j) ==
    {t \in 1..Len(fig.texts) :
        fig.texts[t].x = 100 * j + 50 /\ fig.texts[t].y = 100 * i + 50}

White == [kind |-> "named", name |-> "white", index |-> 0]

\* m is the maximum over the whole matrix
IsMatrixMax(m) ==
    /\ \E r \in 1..Rows : \E c \in 1..Len(args.data[r]) : args.data[r][c] = m
    /\ \A r \in 1..Rows : \A c \in 1..Len(args.data[r]) : args.data[r][c] <= m

\* reading a label back: [-]digits.digit, as a number of tenths
IsDigit(ch) == ch \in {"0", "1", "2", "3", "4", "5", "6", "7", "8", "9"}
DigitOf(ch) == CHOOSE d \in 0..9 : ToString(d) = ch
RECURSIVE NatOf(_)
NatOf(cs) ==
    IF cs = <<>> THEN 0
    ELSE 10 * NatOf(SubSeq(cs, 1, Len(cs) - 1)) + DigitOf(cs[Len(cs)])
Unsigned(s) == IF s # <<>> /\ s[1] = "-" THEN Tail(s) ELSE s
HasOneDecimal(s) ==
    LET u == Unsigned(s)
    IN  /\ Len(u) >= 3
        /\ u[Len(u) - 1] = "."
        /\ \A q \in 1..Len(u) : q # Len(u) - 1 => IsDigit(u[q])
TenthsOf(s) ==
    LET u == Unsigned(s)
        n == 10 * NatOf(SubSeq(u, 1, Len(u) - 2)) + DigitOf(u[Len(u)])
    IN  IF u = s THEN n ELSE -n

\* what a call drew and how it ended, without the fills
Geometry(f) ==
    [shapes |-> [k \in 1..Len(f.patches) |->
                    <<f.patches[k].kind, f.patches[k].xy, f.patches[k].width,
                      f.patches[k].height, f.patches[k].boxstyle>>],
     texts |-> f.texts, xticklabels |-> f.xticklabels,
     yticklabels |-> f.yticklabels, shown |-> f.shown, error |-> f.error]

\* what a call drew and how it ended
Rendering(f) ==
    [patches |-> f.patches, texts |-> f.texts, xticklabels |-> f.xticklabels,
     yticklabels |-> f.yticklabels, shown |-> f.shown, error |-> f.error]

\* twice the centre of a shape: an Ellipse is given its centre, a FancyBboxPatch
\* its lower left corner and its size
TwiceCentre(p) ==
    IF p.kind = "Ellipse" THEN <<2 * p.xy[1], 2 * p.xy[2]>>
    ELSE <<2 * p.xy[1] + p.width, 2 * p.xy[2] + p.height>>

SLabels == <<"S1", "S2", "S3", "S4", "S5", "S6", "S7", "S8", "S9", "S10">>
ELabels == <<"E1", "E2", "E3", "E4", "E5", "E6", "E7", "E8", "E9", "E10">>

(***************************************************************************)
(* The properties.                                                         *)
(***************************************************************************)
\* C1: the shape of every cell whose value is 0 is filled "white", whatever the
\* colormap and the maximum, no label is placed in that cell, and the colormap is
\* never called (so nothing is divided by the maximum) for a value of 0; a
\* matrix of zeros makes no call of the colormap at all.
C1_ZeroCellsNeutral ==
    Returned =>
        /\ \A k \in 1..Len(fig.patches) :
              ValueOf(k) = 0 =>
                  /\ fig.patches[k].facecolor = White
                  /\ LabelsAt(RowOf(k), ColOf(k)) = {}
        /\ \A c \in 1..Len(fig.cmap_calls) : fig.cmap_calls[c].num # 0

\* a completed render of a matrix of zeros only (its maximum is 0)
C1_Witness ==
    /\ Completed
    /\ Rows = 2 /\ Cols = 2
    /\ \A r \in 1..2 : \A c \in 1..2 : args.data[r][c] = 0
    /\ Len(fig.patches) = 4
    /\ \A k \in 1..4 : fig.patches[k].facecolor = White
    /\ fig.texts = <<>> /\ fig.cmap_calls = <<>>

\* C2: the fill of the shape of every cell whose value v is not 0 is the
\* colormap's colour of v / m, m being the maximum over the whole matrix; cells
\* of equal value have equal fills.
C2_GlobalMaxNormalisation ==
    Returned =>
        /\ \A k \in 1..Len(fig.patches) :
              ValueOf(k) # 0 =>
                  \E r \in 1..Rows : \E c \in 1..Len(args.data[r]) :
                      /\ IsMatrixMax(args.data[r][c])
                      /\ fig.patches[k].facecolor =
                             Colormap(args.value_color_map, ValueOf(k), args.data[r][c])
        /\ \A k1, k2 \in 1..Len(fig.patches) :
              ValueOf(k1) = ValueOf(k2) =>
                  fig.patches[k1].facecolor = fig.patches[k2].facecolor

\* a completed render whose maximum is not in the first row and not in the row
\* or the column of a smaller cell that is not 0
C2_Witness ==
    /\ Completed
    /\ args.data = << <<0, 50>>, <<100, 0>> >>
    /\ fig.patches[2].facecolor = [kind |-> "rgba", name |-> args.value_color_map,
                                   index |-> 128]
    /\ fig.patches[3].facecolor = [kind |-> "rgba", name |-> args.value_color_map,
                                   index |-> 255]

\* C3: every label is the label of a cell whose value is not 0, placed at the
\* cell's centre and reading the value with exactly one decimal place; a
\* completed render has exactly one label in each such cell and none elsewhere.
C3_LabelsOfNonZeroCells ==
    Returned =>
        /\ \A t \in 1..Len(fig.texts) :
              \E k \in 1..Len(fig.patches) :
                  /\ ValueOf(k) # 0
                  /\ t \in LabelsAt(RowOf(k), ColOf(k))
                  /\ HasOneDecimal(fig.texts[t].s)
                  /\ TenthsOf(fig.texts[t].s) = ValueOf(k)
        /\ Completed =>
              \A i \in 0..Rows - 1 : \A j \in 0..Cols - 1 :
                  Cardinality(LabelsAt(i, j)) =
                      IF args.data[i + 1][j + 1] # 0 THEN 1 ELSE 0

\* the render of [[0, 5], [10, 0]]: "5.0" in cell (0, 1), "10.0" in cell (1, 0)
C3_Witness ==
    /\ Completed
    /\ args.data = << <<0, 50>>, <<100, 0>> >>
    /\ fig.texts = << [x |-> 150, y |-> 50, s |-> <<"5", ".", "0">>],
                      [x |-> 50, y |-> 150, s |-> <<"1", "0", ".", "0">>] >>

\* C4: the render of the same arguments under any other colormap has the same
\* shapes (kinds, positions, sizes), labels, axis labels and ending, and the same
\* fill in every cell whose value is 0.
C4_ColormapChangesFillsOnly ==
    Returned =>
        \A name \in ColorMaps :
            LET other == Body([args EXCEPT !.value_color_map = name])
            IN  /\ Geometry(other) = Geometry(fig)
                /\ \A k \in 1..Len(fig.patches) :
                      ValueOf(k) = 0 =>
                          other.patches[k].facecolor = fig.patches[k].facecolor

\* a completed render with a cell of 0 and a cell whose fill the other colormap
\* changes
C4_Witness ==
    /\ Completed
    /\ args.value_color_map = "Greens"
    /\ \E k \in 1..Len(fig.patches) : ValueOf(k) = 0
    /\ \E k \in 1..Len(fig.patches) :
          Body([args EXCEPT !.value_color_map = "Blues"]).patches[k].facecolor
              # fig.patches[k].facecolor

\* C5: the x tick labels are the caller's list when it is not empty and
\* otherwise "S1", ..., "Sn" for the n columns; the y tick labels are the
\* caller's list when it is not empty and otherwise "E1", ..., "Em" for the m
\* rows; each axis by its own argument.
C5_AxisLabels ==
    Returned =>
        /\ (fig.error = "" \/ fig.line > 101) =>
              fig.xticklabels =
                  IF args.x_labels \in {<<>>, << <<>> >>}
                  THEN SubSeq(SLabels, 1, Cols)
                  ELSE args.x_labels[1]
        /\ (fig.error = "" \/ fig.line > 104) =>
              fig.yticklabels =
                  IF args.y_labels \in {<<>>, << <<>> >>}
                  THEN SubSeq(ELabels, 1, Rows)
                  ELSE args.y_labels[1]

\* a completed render of a 2x1 matrix with an empty list for the x axis and a
\* list of two labels for the y axis
C5_Witness ==
    /\ Completed
    /\ Rows = 2 /\ Cols = 1
    /\ args.x_labels = << <<>> >> /\ args.y_labels = << <<"a", "b">> >>
    /\ fig.xticklabels = <<"S1">> /\ fig.yticklabels = <<"a", "b">>

\* C6: with a shape type other than "ellipse", the call draws and ends exactly
\* as with "rectangle" or any unrecognized type, and every shape is a
\* FancyBboxPatch; with "ellipse", every shape is an Ellipse.
C6_UnknownTypeIsRectangle ==
    Returned =>
        /\ args.value_figure_type # "ellipse" =>
              /\ \A type \in {"rectangle", "circle", "Ellipse"} :
                    Rendering(Body([args EXCEPT !.value_figure_type = type]))
                        = Rendering(fig)
              /\ \A k \in 1..Len(fig.patches) :
                    fig.patches[k].kind = "FancyBboxPatch"
        /\ args.value_figure_type = "ellipse" =>
              \A k \in 1..Len(fig.patches) : fig.patches[k].kind = "Ellipse"

\* a completed render with an unrecognized shape type
C6_Witness ==
    /\ Completed
    /\ args.value_figure_type = "circle"
    /\ Len(fig.patches) = 4
    /\ \A k \in 1..4 : fig.patches[k].kind = "FancyBboxPatch"

\* C7: a call with an empty matrix (no rows, or rows of no columns) or with rows
\* of different lengths ends in an exception and does not reach plt.show().
C7_EmptyOrRaggedFails ==
    Returned /\ (\/ Rows = 0
                 \/ \A r \in 1..Rows : Len(args.data[r]) = 0
                 \/ \E r1, r2 \in 1..Rows : Len(args.data[r1]) # Len(args.data[r2]))
        => fig.error # "" /\ ~fig.shown

\* a call whose second row is longer than the first has ended in an exception
C7_Witness ==
    /\ Returned
    /\ Rows = 2 /\ Len(args.data[1]) = 1 /\ Len(args.data[2]) = 2
    /\ fig.error = "ValueError" /\ ~fig.shown /\ fig.patches = <<>>

\* C8: a completed render of an m x n matrix has m * n shapes, one for each
\* cell in row-major order, each centred on the centre (j + 0.5, i + 0.5) of its
\* cell, for both shape types and every shape dict.
C8_ShapesCentredOnCells ==
    Completed =>
        /\ Len(fig.patches) = Rows * Cols
        /\ \A k \in 1..Len(fig.patches) :
              TwiceCentre(fig.patches[k]) =
                  <<2 * (100 * ColOf(k) + 50), 2 * (100 * RowOf(k) + 50)>>

\* What the code does in place of C8: m * n shapes, an Ellipse centred on its
\* cell and a FancyBboxPatch with its corner at (j + 0.1, i + 0.1), which centres
\* it only when its length and its height are 0.8.
C8_RectangleCornerIsFixed ==
    Completed =>
        /\ Len(fig.patches) = Rows * Cols
        /\ \A k \in 1..Len(fig.patches) :
              LET p == fig.patches[k]
                  centre == <<2 * (100 * ColOf(k) + 50), 2 * (100 * RowOf(k) + 50)>>
              IN  /\ p.kind = "Ellipse" => TwiceCentre(p) = centre
                  /\ p.kind = "FancyBboxPatch" =>
                        /\ p.xy = <<100 * ColOf(k) + 10, 100 * RowOf(k) + 10>>
                        /\ (TwiceCentre(p) = centre <=> p.width = 80 /\ p.height = 80)

\* C9: no call changes a dict it is given: the shared default objects keep the
\* values of the definition (padding 0.05, rounding_size 0.2, length 0.8, height
\* 0.8; no grid options) after every call, and the dicts a call was bound to
\* are at its end what they were at its start.
C9_ConfigurationUnchanged ==
    /\ defaults =
          [value_figure_params |->
               [padding |-> 5, rounding_size |-> 20, length |-> 80, height |-> 80],
           heatmap_kwargs |-> <<>>]
    /\ Returned =>
          /\ fig.value_figure_params = args.value_figure_params
          /\ fig.heatmap_kwargs = args.heatmap_kwargs
          /\ args.params_given # <<>> => args.value_figure_params = args.params_given[1]
          /\ args.kwargs_given # <<>> => args.heatmap_kwargs = args.kwargs_given[1]

\* a call after the script's that relied on both defaults, completed and drew
\* its shapes with the default length and height
C9_Witness ==
    /\ Completed
    /\ args.params_given = <<>> /\ args.kwargs_given = <<>>
    /\ Len(fig.patches) > 0
    /\ \A k \in 1..Len(fig.patches) :
          fig.patches[k].width = 80 /\ fig.patches[k].height = 80
                                    /\ fig.patches[k].boxstyle = <<"round", 5, 20>>

\* C10: every scalar num / den passed to the colormap has den # 0 and lies in
\* [0, 1], and is 1 for a cell whose value is the maximum of the matrix.
C10_ScalarInUnitInterval ==
    Returned =>
        \A c \in 1..Len(fig.cmap_calls) :
            LET num == fig.cmap_calls[c].num
                den == fig.cmap_calls[c].den
            IN  /\ den # 0
                /\ den > 0 => 0 <= num /\ num <= den
                /\ den < 0 => den <= num /\ num <= 0
                /\ IsMatrixMax(num) => num = den

\* What the code does in place of C10: the divisor is the maximum of the matrix,
\* and the scalar lies in (0, 1] when no entry of the matrix is negative.
C10_UnitIntervalWithoutNegatives ==
    Returned =>
        \A c \in 1..Len(fig.cmap_calls) :
            LET num == fig.cmap_calls[c].num
                den == fig.cmap_calls[c].den
            IN  /\ IsMatrixMax(den)
                /\ (\A r \in 1..Rows : \A k \in 1..Len(args.data[r]) : args.data[r][k] >= 0)
                      => 0 < num /\ num <= den

====
